---- MODULE Spec2Model ----
(***************************************************************************)
(* Model of bugport/reviewer: the diff-artifact path parser, the batch     *)
(* parser, the comment formatter and the posting loop of                   *)
(* src/bitbucket_comments.py, and the standalone inspection tool           *)
(* src/parse-diff-files.py.                                                *)
(*                                                                         *)
(* A Python str is a sequence of one-character strings.  An Optional value *)
(* is a sequence of length at most one: None is <<>>, a value v is <<v>>.  *)
(***************************************************************************)
EXTENDS Integers, Sequences, FiniteSets, TLC

----------------------------------------------------------------------------
(* Bounds of the checked input sets.                                       *)

\* pieces concatenated into one --diff-files argument holding several paths
MaxCsvPieces == 4
\* pieces concatenated into a --diff-files argument holding a single path
MaxRecordPieces == 3
\* pieces concatenated into the argument of the standalone tool
MaxToolPieces == 4

----------------------------------------------------------------------------
(* Python string primitives used by the source.                            *)

None == <<>>

Some(v) == <<v>>

Digits == {"0", "1", "2", "3", "4", "5", "6", "7", "8", "9"}

\* the characters str.strip() removes
Whitespace == {" ", "\t", "\n", "\r"}

DigitVal(c) ==
    CASE c = "0" -> 0 [] c = "1" -> 1 [] c = "2" -> 2 [] c = "3" -> 3
      [] c = "4" -> 4 [] c = "5" -> 5 [] c = "6" -> 6 [] c = "7" -> 7
      [] c = "8" -> 8 [] c = "9" -> 9

DigitChar(d) ==
    CASE d = 0 -> "0" [] d = 1 -> "1" [] d = 2 -> "2" [] d = 3 -> "3"
      [] d = 4 -> "4" [] d = 5 -> "5" [] d = 6 -> "6" [] d = 7 -> "7"
      [] d = 8 -> "8" [] d = 9 -> "9"

\* int(s) for a non-empty string of decimal digits
RECURSIVE int(_)
int(s) ==
    IF Len(s) = 0 THEN 0
    ELSE 10 * int(SubSeq(s, 1, Len(s) - 1)) + DigitVal(s[Len(s)])

\* str(n) for a natural number, as an f-string renders it
RECURSIVE str(_)
str(n) ==
    IF n < 10 THEN <<DigitChar(n)>>
    ELSE str(n \div 10) \o <<DigitChar(n % 10)>>

\* sub occurs in s starting at index i
OccursAt(s, sub, i) ==
    /\ i >= 1
    /\ i + Len(sub) - 1 <= Len(s)
    /\ SubSeq(s, i, i + Len(sub) - 1) = sub

\* sub in s
Contains(s, sub) == \E i \in 1..(Len(s) + 1) : OccursAt(s, sub, i)

EndsWith(s, sub) == OccursAt(s, sub, Len(s) - Len(sub) + 1)

\* s.replace(old, new): every non-overlapping occurrence, scanning left to right
RECURSIVE ReplaceFrom(_, _, _, _)
ReplaceFrom(s, old, new, i) ==
    IF i > Len(s) THEN <<>>
    ELSE IF OccursAt(s, old, i) THEN new \o ReplaceFrom(s, old, new, i + Len(old))
    ELSE <<s[i]>> \o ReplaceFrom(s, old, new, i + 1)

replace(s, old, new) == ReplaceFrom(s, old, new, 1)

\* s.split(sep) for a one-character separator: always at least one field
RECURSIVE SplitFrom(_, _, _, _)
SplitFrom(s, sep, i, cur) ==
    IF i > Len(s) THEN <<cur>>
    ELSE IF s[i] = sep THEN <<cur>> \o SplitFrom(s, sep, i + 1, <<>>)
    ELSE SplitFrom(s, sep, i + 1, Append(cur, s[i]))

split(s, sep) == SplitFrom(s, sep, 1, <<>>)

\* s.strip()
strip(s) ==
    LET keep == {i \in 1..Len(s) : s[i] \notin Whitespace}
    IN  IF keep = {} THEN <<>>
        ELSE LET lo == CHOOSE i \in keep : \A j \in keep : i <= j
                 hi == CHOOSE i \in keep : \A j \in keep : j <= i
             IN  SubSeq(s, lo, hi)

\* sep.join(parts)
RECURSIVE join(_, _)
join(parts, sep) ==
    IF Len(parts) = 0 THEN <<>>
    ELSE IF Len(parts) = 1 THEN parts[1]
    ELSE parts[1] \o sep \o join(Tail(parts), sep)

\* seq[:n]
Prefix(seq, n) == SubSeq(seq, 1, IF Len(seq) < n THEN Len(seq) ELSE n)

\* os.path.basename(p): what follows the last "/"
basename(p) ==
    LET slashes == {i \in 1..Len(p) : p[i] = "/"}
    IN  IF slashes = {} THEN p
        ELSE LET last == CHOOSE i \in slashes : \A j \in slashes : j <= i
             IN  SubSeq(p, last + 1, Len(p))

DotDiff == <<".", "d", "i", "f", "f">>

\* length of the maximal run of decimal digits of s that ends at index e
RECURSIVE DigitRun(_, _)
DigitRun(s, e) ==
    IF e >= 1 /\ s[e] \in Digits THEN 1 + DigitRun(s, e - 1) ELSE 0

\* re.search(r'\.(\d+-\d+)\.diff$', filename): group(1) of the match, or None.
\* $ matches at the end of the string and just before one final newline.
range_match(filename) ==
    LET n == Len(filename)
        e == IF n >= 1 /\ filename[n] = "\n" THEN n - 1 ELSE n
        s == SubSeq(filename, 1, e)
    IN  IF ~EndsWith(s, DotDiff) THEN None
        ELSE LET r  == e - Len(DotDiff)
                 k2 == DigitRun(s, r)
                 k1 == DigitRun(s, r - k2 - 1)
                 d  == r - k2 - k1 - 1
             IN  IF /\ k2 >= 1
                    /\ r - k2 >= 1
                    /\ s[r - k2] = "-"
                    /\ k1 >= 1
                    /\ d >= 1
                    /\ s[d] = "."
                 THEN Some(SubSeq(s, d + 1, r))
                 ELSE None

----------------------------------------------------------------------------
(* The file system as the parsers see it.  A file state is a record        *)
(* [kind, content]: kind "ok" is a readable UTF-8 file holding content;    *)
(* "missing", "denied" and "badenc" make open()/read() raise               *)
(* FileNotFoundError, PermissionError and UnicodeDecodeError.              *)

Missing == [kind |-> "missing", content |-> <<>>]

Denied == [kind |-> "denied", content |-> <<>>]

BadEnc == [kind |-> "badenc", content |-> <<>>]

File(c) == [kind |-> "ok", content |-> c]

\* str(e) of the exception open()/read() raises: the runtime's text, which
\* quotes the path for the two OSError kinds
ErrorText(file_path, st) ==
    CASE st.kind = "missing" ->
            <<"[", "E", "r", "r", "n", "o", " ", "2", "]", " ", "'">> \o file_path \o <<"'">>
      [] st.kind = "denied" ->
            <<"[", "E", "r", "r", "n", "o", " ", "1", "3", "]", " ", "'">> \o file_path \o <<"'">>
      [] st.kind = "badenc" ->
            <<"'", "u", "t", "f", "-", "8", "'", " ", "c", "o", "d", "e", "c">>

ErrorPrefix ==
    <<"E", "r", "r", "o", "r", " ", "r", "e", "a", "d", "i", "n", "g", " ",
      "f", "i", "l", "e", ":", " ">>

\* the try/except around open(...).read(): the text, or the diagnostic
read_content(file_path, st) ==
    IF st.kind = "ok" THEN st.content
    ELSE ErrorPrefix \o ErrorText(file_path, st)

\* os.path.exists(file_path)
exists(st) == st.kind # "missing"

----------------------------------------------------------------------------
(* The single-path parsers.                                                *)

\* filename.replace('.diff', '')
base_filename(filename) == replace(filename, DotDiff, <<>>)

\* base_filename.replace(f'.{range_str}', '')
strip_range(base, range_str) == replace(base, <<".">> \o range_str, <<>>)

\* range_str.split('-') converted with int()
range_lines(range_str) ==
    LET parts == split(range_str, "-")
    IN  <<int(parts[1]), int(parts[2])>>

\* the dict both parsers build from the path and the content read
make_record(file_path, content) ==
    LET filename == basename(file_path)
        base     == base_filename(filename)
        m        == range_match(filename)
    IN  IF m # None
        THEN LET range_str == m[1]
                 lines     == range_lines(range_str)
             IN  [filename   |-> strip_range(base, range_str),
                  range      |-> Some(range_str),
                  start_line |-> Some(lines[1]),
                  end_line   |-> Some(lines[2]),
                  full_path  |-> file_path,
                  content    |-> content]
        ELSE [filename   |-> base,
              range      |-> None,
              start_line |-> None,
              end_line   |-> None,
              full_path  |-> file_path,
              content    |-> content]

\* parse-diff-files.py: parse_diff_file_path(file_path), the file being in state st
parse_diff_file_path(file_path, st) ==
    make_record(file_path, read_content(file_path, st))

\* mutant: the os.path.exists early return left out
parse_diff_file_unchecked(file_path, st) ==
    Some(make_record(file_path, read_content(file_path, st)))

\* bitbucket_comments.py: parse_diff_file(file_path) -> Optional[Dict]
parse_diff_file(file_path, st) ==
    IF ~exists(st) THEN None
    ELSE Some(make_record(file_path, read_content(file_path, st)))

----------------------------------------------------------------------------
(* The batch parser.                                                       *)

\* [path.strip() for path in s.split(',')]
file_paths(s) ==
    LET raw == split(s, ",")
    IN  [k \in 1..Len(raw) |-> strip(raw[k])]

\* the paths the loops do not skip
Tokens(s) == {file_paths(s)[k] : k \in 1..Len(file_paths(s))} \ {<<>>}

\* mutant: an empty path ends the loop (break for continue)
RECURSIVE parse_loop_break(_, _, _)
parse_loop_break(paths, fsys, k) ==
    IF k > Len(paths) THEN <<>>
    ELSE IF paths[k] = <<>> THEN <<>>
    ELSE parse_diff_file(paths[k], fsys[paths[k]]) \o parse_loop_break(paths, fsys, k + 1)

RECURSIVE parse_loop(_, _, _)
parse_loop(paths, fsys, k) ==
    IF k > Len(paths) THEN <<>>
    ELSE IF paths[k] = <<>> THEN parse_loop(paths, fsys, k + 1)
    ELSE parse_diff_file(paths[k], fsys[paths[k]]) \o parse_loop(paths, fsys, k + 1)

\* bitbucket_comments.py: parse_diff_files(comma_separated_paths)
parse_diff_files(comma_separated_paths, fsys) ==
    parse_loop(file_paths(comma_separated_paths), fsys, 1)

----------------------------------------------------------------------------
(* The comment formatter and the body main() submits.                      *)

Newline == <<"\n">>

\* the grave accent U+0060, which a TLA+ string literal cannot hold
Backtick == "U+0060"

\* a Python value used as a condition
Truthy(v) == v # <<>>

\* format_comment(comment, filename, line)
format_comment(comment, filename, line) ==
    LET file_part == IF Truthy(filename)
                     THEN << <<"F", "i", "l", "e", ":", " ", Backtick>> \o filename \o <<Backtick>> >>
                     ELSE <<>>
        line_part == IF line # None
                     THEN << <<"L", "i", "n", "e", ":", " ">> \o str(line[1]) >>
                     ELSE <<>>
    IN  join(<<comment>> \o file_part \o line_part, Newline)

SnippetLines == 8

DiffMarker == <<"+", "+", "+">>

Fence == <<Backtick, Backtick, Backtick>>

\* mutant: the submission fallback 1 also shown when there is no range
display_line_default_one(diff) == IF Truthy(diff.range) THEN diff.start_line ELSE Some(1)

\* the line main() passes to format_comment
display_line(diff) == IF Truthy(diff.range) THEN diff.start_line ELSE None

\* mutant: the fallback line is 0
line_number_default_zero(diff) == IF Truthy(diff.range) THEN diff.start_line[1] ELSE 0

\* the line main() passes to post_inline_comment
line_number(diff) == IF Truthy(diff.range) THEN diff.start_line[1] ELSE 1

\* mutant: the [:8] truncation left out
snippet_untruncated(content) == join(split(content, "\n"), Newline)

\* diff['content'].split('\n')[:8] joined again
snippet(content) == join(Prefix(split(content, "\n"), SnippetLines), Newline)

\* the comment_text main() builds for one record
comment_text(default_comment, diff) ==
    LET text == format_comment(default_comment, diff.filename, display_line(diff))
    IN  IF Truthy(diff.content) /\ Contains(diff.content, DiffMarker)
        THEN text \o Newline \o Newline \o Fence \o Newline
                  \o snippet(diff.content) \o Newline \o Fence
        ELSE text

DefaultComment ==
    <<"C", "o", "d", "e", " ", "r", "e", "v", "i", "e", "w", " ",
      "f", "i", "n", "d", "i", "n", "g">>

\* args.comment or "Code review finding"
default_comment(comment) ==
    IF comment # None /\ Truthy(comment[1]) THEN comment[1] ELSE DefaultComment

----------------------------------------------------------------------------
(* Input sets.                                                             *)

RECURSIVE Flatten(_)
Flatten(ps) == IF Len(ps) = 0 THEN <<>> ELSE ps[1] \o Flatten(Tail(ps))

\* every concatenation of at most max pieces
Strings(pieces, max) ==
    {Flatten(ps) : ps \in UNION {[1..n -> pieces] : n \in 0..max}}

DotRange == <<".", "0", "2", "-", "0">>

\* several paths: separators, blanks, a plain name and a range artifact
CsvPieces == {<<",">>, <<" ">>, <<"a">>, DotRange \o DotDiff}

\* one path: directory separator, the extension, a range marker and its halves
PathPieces == {<<"a">>, <<"/">>, DotDiff, DotRange, <<".", "0", "2">>, <<"-", "0">>}

\* the standalone tool's argument: paths, with the comma that separates them
ToolPieces == (PathPieces \ {<<"/">>}) \cup {<<",">>, DotRange \o DotDiff}

ShortDiff == <<"+", "+", "+", " ", "b", "\n", "+", "x">>

LongDiff ==
    <<"-", "-", "-", "\n", "+", "+", "+", "\n", "@", "\n", "1", "\n", "2", "\n",
      "3", "\n", "4", "\n", "5", "\n", "6", "\n", "7">>

\* file states of the several-path inputs
CsvFileStates == {Missing, Denied, File(ShortDiff)}
ToolFileStates == {Missing, File(ShortDiff)}

\* file states of the single-path inputs
RecordFileStates ==
    {Missing, Denied, BadEnc, File(<<>>), File(<<"x">>), File(ShortDiff), File(LongDiff)}

\* values of --comment: not given, empty, given
Comments == {None, Some(<<>>), Some(<<"m", "\n", "n">>)}

Required ==
    {"BITBUCKET_WORKSPACE", "BITBUCKET_REPO", "BITBUCKET_USERNAME", "BITBUCKET_APP_PASSWORD"}

\* the environment: every variable set, none set, or the password left out
Environments == {Required, {}, Required \ {"BITBUCKET_APP_PASSWORD"}}

\* what one POST can come to: an HTTP status, or None for a RequestException
Responses == {Some(200), Some(201), Some(400), None}

----------------------------------------------------------------------------
(* State.                                                                  *)

VARIABLES
    prog,           \* the program run: "bitbucket_comments" or "parse-diff-files"
    diff_files,     \* args.diff_files / sys.argv[1]
    comment,        \* args.comment, None when not given
    test,           \* args.test
    env,            \* the required environment variables that are non-empty
    fs,             \* state of the file at each path of diff_files
    pc,             \* position in main()
    diff_data,      \* the posting tool's parsed records
    i,              \* index of the next record (posting tool) or path (standalone tool)
    success_count,  \* comments accepted so far
    probe,          \* test_connection()'s result, None until it has run
    requests,       \* the POSTs made, in order, each with its response
    printed,        \* the records the standalone tool has printed
    exit_code       \* the process's exit code, None while running

vars ==
    <<prog, diff_files, comment, test, env, fs, pc, diff_data, i, success_count,
      probe, requests, printed, exit_code>>

\* the state both programs start from, the inputs apart
Fresh ==
    /\ diff_data = <<>>
    /\ i = 1
    /\ success_count = 0
    /\ probe = None
    /\ requests = <<>>
    /\ printed = <<>>
    /\ exit_code = None

\* the posting tool started on several paths, or on a single path
InitPost ==
    /\ prog = "bitbucket_comments"
    /\ pc = "client"
    /\ test \in BOOLEAN
    /\ env \in Environments
    /\ \/ /\ diff_files \in Strings(CsvPieces, MaxCsvPieces)
          /\ fs \in [Tokens(diff_files) -> CsvFileStates]
          /\ comment = None
       \/ /\ diff_files \in Strings(PathPieces, MaxRecordPieces)
          /\ fs \in [Tokens(diff_files) -> RecordFileStates]
          /\ comment \in Comments
    /\ Fresh

\* the standalone tool started on its one argument
InitTool ==
    /\ prog = "parse-diff-files"
    /\ pc = "tool"
    /\ test = FALSE
    /\ env = {}
    /\ comment = None
    /\ diff_files \in Strings(ToolPieces, MaxToolPieces)
    /\ fs \in [Tokens(diff_files) -> ToolFileStates]
    /\ Fresh

\* either program of the repository is started
Init == InitPost \/ InitTool

----------------------------------------------------------------------------
(* bitbucket_comments.py: main().                                          *)

\* mutant: the app password left out of the check
configured_without_password(e) == (Required \ {"BITBUCKET_APP_PASSWORD"}) \subseteq e

\* all([self.workspace, self.repo, self.username, self.app_password])
configured(e) == Required \subseteq e

Exit(code) ==
    /\ pc' = "exit"
    /\ exit_code' = Some(code)

\* BitbucketClient(): ValueError and exit 1 unless the configuration is complete
NewClient ==
    /\ pc = "client"
    /\ IF configured(env)
       THEN /\ pc' = IF test THEN "test" ELSE "parse"
            /\ UNCHANGED exit_code
       ELSE Exit(1)
    /\ UNCHANGED <<prog, diff_files, comment, test, env, fs, diff_data, i, success_count,
                   probe, requests, printed>>

\* --test: the connectivity probe decides the exit code
TestConnection ==
    /\ pc = "test"
    /\ \E success \in BOOLEAN :
          /\ probe' = Some(success)
          /\ Exit(IF success THEN 0 ELSE 1)
    /\ UNCHANGED <<prog, diff_files, comment, test, env, fs, diff_data, i, success_count,
                   requests, printed>>

\* diff_data = parse_diff_files(args.diff_files); exit 1 when it is empty
ParseDiffFiles ==
    /\ pc = "parse"
    /\ LET parsed == parse_diff_files(diff_files, fs)
       IN  /\ diff_data' = parsed
           /\ IF parsed = <<>>
              THEN Exit(1)
              ELSE /\ pc' = "post"
                   /\ UNCHANGED exit_code
    /\ UNCHANGED <<prog, diff_files, comment, test, env, fs, i, success_count, probe, requests,
                   printed>>

\* mutant: only status 200 counts as success
accepted_only_200(response) == response = Some(200)

\* post_inline_comment's result for a response
accepted(response) == response # None /\ response[1] \in {200, 201}

\* the payload post_inline_comment sends for one record
payload(c, diff) ==
    [content  |-> comment_text(default_comment(c), diff),
     line_to  |-> line_number(diff),
     filename |-> diff.filename]

\* mutant: a rejected comment ends the loop
PostComment_stop_on_failure ==
    /\ pc = "post"
    /\ i <= Len(diff_data)
    /\ \E response \in Responses :
          /\ requests' = Append(requests, [payload  |-> payload(comment, diff_data[i]),
                                           response |-> response])
          /\ success_count' = IF accepted(response) THEN success_count + 1
                              ELSE success_count
          /\ i' = IF accepted(response) THEN i + 1 ELSE Len(diff_data) + 1
    /\ UNCHANGED <<prog, diff_files, comment, test, env, fs, pc, diff_data, probe, printed,
                   exit_code>>

\* one iteration of the posting loop: format, post once, count
PostComment ==
    /\ pc = "post"
    /\ i <= Len(diff_data)
    /\ \E response \in Responses :
          /\ requests' = Append(requests, [payload  |-> payload(comment, diff_data[i]),
                                           response |-> response])
          /\ success_count' = IF accepted(response) THEN success_count + 1
                              ELSE success_count
    /\ i' = i + 1
    /\ UNCHANGED <<prog, diff_files, comment, test, env, fs, pc, diff_data, probe, printed,
                   exit_code>>

\* after the loop: exit 0 when every comment was accepted, else 1
Report ==
    /\ pc = "post"
    /\ i > Len(diff_data)
    /\ Exit(IF success_count = Len(diff_data) THEN 0 ELSE 1)
    /\ UNCHANGED <<prog, diff_files, comment, test, env, fs, diff_data, i, success_count,
                   probe, requests, printed>>

----------------------------------------------------------------------------
(* parse-diff-files.py: main().                                            *)

\* one iteration of the loop over file_paths: skip an empty path, else parse and print
ToolIter ==
    /\ pc = "tool"
    /\ i <= Len(file_paths(diff_files))
    /\ LET file_path == file_paths(diff_files)[i]
       IN  printed' = IF file_path = <<>> THEN printed
                      ELSE Append(printed, parse_diff_file_path(file_path, fs[file_path]))
    /\ i' = i + 1
    /\ UNCHANGED <<prog, diff_files, comment, test, env, fs, pc, diff_data, success_count,
                   probe, requests, exit_code>>

\* the loop is over and the interpreter exits
ToolEnd ==
    /\ pc = "tool"
    /\ i > Len(file_paths(diff_files))
    /\ Exit(0)
    /\ UNCHANGED <<prog, diff_files, comment, test, env, fs, diff_data, i, success_count,
                   probe, requests, printed>>

----------------------------------------------------------------------------
(* Either program, step by step.                                           *)

Next ==
    \/ NewClient
    \/ TestConnection
    \/ ParseDiffFiles
    \/ PostComment
    \/ Report
    \/ ToolIter
    \/ ToolEnd

Spec == Init /\ [][Next]_vars

----------------------------------------------------------------------------
(* The filename grammar, stated independently of the parsers' regex:       *)
(* name = prefix . d1 - d2 .diff with d1, d2 non-empty digit strings.      *)

AllDigits(s) == s # <<>> /\ \A k \in 1..Len(s) : s[k] \in Digits

RangeSuffixes(name) ==
    LET c == Len(name) - Len(DotDiff) + 1
    IN  IF ~EndsWith(name, DotDiff) THEN {}
        ELSE {<<SubSeq(name, ab[1] + 1, ab[2] - 1), SubSeq(name, ab[2] + 1, c - 1)>> :
                ab \in {x \in (1..c) \X (1..c) :
                          /\ x[1] < x[2]
                          /\ name[x[1]] = "."
                          /\ name[x[2]] = "-"
                          /\ AllDigits(SubSeq(name, x[1] + 1, x[2] - 1))
                          /\ AllDigits(SubSeq(name, x[2] + 1, c - 1))}}

\* name with only a trailing .diff removed
WithoutExtension(name) ==
    IF EndsWith(name, DotDiff) THEN SubSeq(name, 1, Len(name) - Len(DotDiff)) ELSE name

\* every record either parser has returned so far
Records == diff_data \o printed

----------------------------------------------------------------------------
(* Claims.                                                                 *)

\* C1: for every path whose final segment ends in .<d1>-<d2>.diff the parser
\* returns start_line = d1 and end_line = d2, and the returned filename does
\* not contain the substring .<d1>-<d2> anywhere.
C1_RangeExtractedAndRemoved ==
    \A k \in 1..Len(Records) :
        \A d \in RangeSuffixes(basename(Records[k].full_path)) :
            /\ Records[k].start_line = Some(int(d[1]))
            /\ Records[k].end_line = Some(int(d[2]))
            /\ ~Contains(Records[k].filename, <<".">> \o d[1] \o <<"-">> \o d[2])

\* C2: for every path whose final segment does not end in .<digits>-<digits>.diff
\* the parser returns no range, no start_line and no end_line, and a filename
\* equal to the final segment with only its trailing .diff removed.
C2_NoRangeOnlyExtensionRemoved ==
    \A k \in 1..Len(Records) :
        LET name == basename(Records[k].full_path)
        IN  RangeSuffixes(name) = {} =>
                /\ Records[k].range = None
                /\ Records[k].start_line = None
                /\ Records[k].end_line = None
                /\ Records[k].filename = WithoutExtension(name)

Posting == prog = "bitbucket_comments"

\* the posting tool has run parse_diff_files
Parsed == Posting /\ (pc = "post" \/ (pc = "exit" /\ Required \subseteq env /\ ~test))

\* the standalone tool has gone through its whole argument
Listed == prog = "parse-diff-files" /\ pc = "exit"

\* the fields of the comma-split input, trimmed: field j lies between the
\* (j-1)-th and the j-th comma
Fields(s) ==
    LET commas == {k \in 1..Len(s) : s[k] = ","}
        n      == Cardinality(commas)
        at(j)  == IF j = 0 THEN 0
                  ELSE IF j = n + 1 THEN Len(s) + 1
                  ELSE CHOOSE k \in commas : Cardinality({c \in commas : c < k}) = j - 1
    IN  [j \in 1..(n + 1) |-> strip(SubSeq(s, at(j - 1) + 1, at(j) - 1))]

FullPaths(records) == [k \in 1..Len(records) |-> records[k].full_path]

NonEmpty(t) == t # <<>>

Present(t) == t # <<>> /\ fs[t].kind # "missing"

\* content is the diagnostic for the failed read of path t
Diagnostic(content, t) ==
    /\ OccursAt(content, ErrorPrefix, 1)
    /\ Contains(content, ErrorText(t, fs[t]))

\* record k was formatted and submitted
Submitted(k) ==
    /\ k <= Len(requests)
    /\ requests[k].payload.filename = diff_data[k].filename

LinePrefix == <<"L", "i", "n", "e", ":", " ">>

FilePrefix == <<"F", "i", "l", "e", ":", " ", Backtick>>

\* the base text main() passes to the formatter
BaseText == IF comment = None \/ comment = Some(<<>>) THEN DefaultComment ELSE comment[1]

\* the lines of a body the formatter can have added after the base text: at
\* most the File line and the Line line, and never a line of the snippet
AddedLines(body) ==
    LET lines == split(body, "\n")
        nb    == Len(split(BaseText, "\n"))
    IN  {lines[j] : j \in {nb + 1, nb + 2} \cap (1..Len(lines))}

\* C5: for every record processed, when it has a range the line shown in the
\* comment and the line submitted both equal start_line; when it has none the
\* comment shows no "Line:" line and the line submitted is 1.
C5_LineFallbackPolicy ==
    \A k \in 1..Len(requests) :
        LET body  == requests[k].payload.content
            shown == {l \in AddedLines(body) : OccursAt(l, LinePrefix, 1)}
        IN  IF diff_data[k].range # None
            THEN /\ requests[k].payload.line_to = diff_data[k].start_line[1]
                 /\ shown = {LinePrefix \o str(diff_data[k].start_line[1])}
            ELSE /\ requests[k].payload.line_to = 1
                 /\ shown = {}

C5_Witness ==
    \E j, k \in 1..Len(requests) :
        /\ diff_data[j].range = None
        /\ diff_data[k].range # None

\* the optional lines of a body, from the record alone
OptionalLines(diff) ==
    (IF diff.filename # <<>> THEN <<FilePrefix \o diff.filename \o <<Backtick>> >> ELSE <<>>)
    \o (IF diff.range # None THEN <<LinePrefix \o str(diff.start_line[1])>> ELSE <<>>)

\* one fenced block of at most the first 8 lines of the content
FencedBlock(content) ==
    LET lines == split(content, "\n")
        first == [j \in 1..(IF Len(lines) > 8 THEN 8 ELSE Len(lines)) |-> lines[j]]
    IN  join(<<Fence>> \o first \o <<Fence>>, Newline)

HasDiff(content) == content # <<>> /\ Contains(content, DiffMarker)

\* C6 as stated: the body is the newline-joined concatenation of the base text,
\* the File line iff the filename is non-empty, the Line line iff a line is
\* present, and the fenced block iff the content is non-empty and holds +++.
C6_BodyIsJoinedParts ==
    \A k \in 1..Len(requests) :
        requests[k].payload.content =
            join(<<BaseText>> \o OptionalLines(diff_data[k])
                   \o (IF HasDiff(diff_data[k].content)
                       THEN <<FencedBlock(diff_data[k].content)>> ELSE <<>>),
                 Newline)

\* C6 amended: as stated, with an empty line between the preceding lines and
\* the fenced block.
C6_BodyWithBlankLineBeforeBlock ==
    \A k \in 1..Len(requests) :
        requests[k].payload.content =
            join(<<BaseText>> \o OptionalLines(diff_data[k])
                   \o (IF HasDiff(diff_data[k].content)
                       THEN << <<>>, FencedBlock(diff_data[k].content)>> ELSE <<>>),
                 Newline)

C6_Witness ==
    \E k \in 1..Len(requests) :
        /\ diff_data[k].filename # <<>>
        /\ diff_data[k].range # None
        /\ HasDiff(diff_data[k].content)
        /\ Len(split(diff_data[k].content, "\n")) > 8

\* every POST made was answered with 200 or 201
AllAccepted == \A k \in 1..Len(requests) : requests[k].response \in {Some(200), Some(201)}

ExitCodeRight ==
    /\ exit_code \in {Some(0), Some(1)}
    /\ exit_code = Some(0) <=>
          \/ probe = Some(TRUE)
          \/ probe = None /\ requests # <<>> /\ AllAccepted
    /\ ~(Required \subseteq env) => exit_code = Some(1)
    /\ probe = Some(FALSE) => exit_code = Some(1)
    /\ (Required \subseteq env /\ ~test /\ Tokens(diff_files) = {}) => exit_code = Some(1)
    /\ ~AllAccepted => exit_code = Some(1)

\* the number of steps main() can still take, at most
Rank ==
    CASE pc = "client" -> Len(Fields(diff_files)) + 3
      [] pc = "tool"   -> Len(Fields(diff_files)) + 2 - i
      [] pc = "parse"  -> Len(Fields(diff_files)) + 2
      [] pc = "post"   -> Len(diff_data) + 2 - i
      [] pc = "test"   -> 1
      [] pc = "exit"   -> 0

\* a run that has not exited can take its next step: the parse step needs only
\* the parser's result for the input, the other steps are enabled
CanStep ==
    IF pc = "parse" THEN Len(parse_diff_files(diff_files, fs)) <= Len(Fields(diff_files))
    ELSE ENABLED (NewClient \/ TestConnection \/ PostComment \/ Report)

\* a step of the posting tool lowers the bound on the steps it has left
StepLowersRank == Posting => (Rank' < Rank /\ Rank' >= 0)

AttemptsInOrder ==
    /\ Len(requests) <= Len(diff_data)
    /\ \A k \in 1..Len(requests) :
          /\ requests[k].payload.filename = diff_data[k].filename
          /\ requests[k].payload.line_to =
                IF diff_data[k].range # None THEN diff_data[k].start_line[1] ELSE 1
    /\ success_count =
          Cardinality({k \in 1..Len(requests) : requests[k].response \in {Some(200), Some(201)}})

\* C8: in a non-test run with a non-empty batch every parsed record gets exactly
\* one submission attempt, the attempts are made in input order, a failed one
\* counts against its record only and never prevents a later attempt.
C8_OneAttemptPerRecord ==
    /\ [](AttemptsInOrder)
    /\ []((Posting /\ pc = "exit" /\ probe = None) => Len(requests) = Len(diff_data))
    /\ []((pc = "post" /\ Len(requests) < Len(diff_data)) => ENABLED PostComment)
    /\ [][(pc = "post" /\ Len(requests) < Len(diff_data)) =>
            /\ pc' = "post"
            /\ Len(requests') = Len(requests) + 1]_vars

C8_Witness ==
    /\ Posting
    /\ pc = "exit"
    /\ Len(requests) >= 2
    /\ requests[1].response \notin {Some(200), Some(201)}

\* C9: no comment is submitted in a run that ends because configuration is
\* missing or because the batch parse yields no record: the configuration check
\* ends the run with code 1 before any record is processed, and an empty batch
\* ends it with code 1 and no network call.
C9_NoSubmissionWithoutConfigOrRecords ==
    /\ (Posting /\ ~(Required \subseteq env)) =>
          /\ requests = <<>>
          /\ diff_data = <<>>
          /\ probe = None
          /\ pc \in {"client", "exit"}
          /\ pc = "exit" => exit_code = Some(1)
    /\ (Posting /\ pc = "exit" /\ Required \subseteq env /\ ~test /\ diff_data = <<>>) =>
          /\ requests = <<>>
          /\ exit_code = Some(1)

C9_Witness ==
    /\ Posting
    /\ pc = "exit"
    /\ ~(Required \subseteq env)
    /\ ~test
    /\ \E t \in Tokens(diff_files) : fs[t].kind = "ok"

\* C10 as stated: every record's line range, when present, is a pair of
\* positive integers with start_line <= end_line, and the line of every
\* submitted request is a positive integer.
C10_PositiveOrderedRange ==
    /\ \A k \in 1..Len(Records) :
          Records[k].range # None =>
              /\ Records[k].start_line[1] >= 1
              /\ Records[k].end_line[1] >= 1
              /\ Records[k].start_line[1] <= Records[k].end_line[1]
    /\ \A k \in 1..Len(requests) : requests[k].payload.line_to >= 1

\* C10 amended: every record's line range, when present, is the pair of
\* non-negative integers its two digit groups denote, in no required order; the
\* line of every submitted request is a non-negative integer, and is 1 when the
\* record has no range.
C10_NonNegativeRange ==
    /\ \A k \in 1..Len(Records) :
          Records[k].range # None =>
              /\ Records[k].start_line[1] \in Nat
              /\ Records[k].end_line[1] \in Nat
              /\ \A d \in RangeSuffixes(basename(Records[k].full_path)) :
                    /\ Records[k].start_line[1] = int(d[1])
                    /\ Records[k].end_line[1] = int(d[2])
    /\ \A k \in 1..Len(requests) :
          /\ requests[k].payload.line_to \in Nat
          /\ diff_data[k].range = None => requests[k].payload.line_to = 1

C10_Witness ==
    \E k \in 1..Len(requests) :
        /\ diff_data[k].range # None
        /\ diff_data[k].start_line[1] > diff_data[k].end_line[1]
        /\ requests[k].payload.line_to = diff_data[k].start_line[1]

====
